---- MODULE Spec2Model ----
(***************************************************************************)
(* bluetooth-route-timer: the route data model (route.py), the Bluetooth   *)
(* scanner (scanner.py), the scan loop (route_timer.py) and its caller     *)
(* (main.py), as one state machine.                                        *)
(*                                                                         *)
(* Python values are modelled as follows.                                  *)
(*   Optional[x]         <<>> for None, <<x>> for a value                  *)
(*   dict[datetime,float] a sequence of [timestamp, rssi] records with     *)
(*                       pairwise distinct timestamps, in insertion order  *)
(*                       (a dict iterates in the order of first insertion) *)
(*   asyncio.Task        an index into tasks; 0 stands for None            *)
(*   set[datetime]       a set; its iteration order is hash_order          *)
(* Code between two awaits runs atomically (one asyncio event loop), so    *)
(* every action below runs one coroutine from one suspension point to the  *)
(* next.                                                                   *)
(***************************************************************************)
EXTENDS Integers, Sequences, FiniteSets, TLC

\* ---- bounds of the model ------------------------------------------------
MaxReadings == 3        \* detection callbacks per run
MaxQueue == 2           \* readings waiting in the device queue
MaxTime == 40           \* event-loop clock, in seconds
TickSec == 10           \* granularity of the event-loop clock
MaxCancels == 1         \* external cancellations of the task per run
MaxStops == 1           \* stop_scan calls from outside scan_loop and main per run

\* ---- program constants --------------------------------------------------
ABSOLUTE_END_TIMER_DURATION_SEC == 30
SCAN_END_TIMER_DURATION_SEC == 15

\* inputs of the detection callback: datetime.now() and advertisement_data.rssi
Timestamps == {1, 2}
RssiValues == {-60, -50}

\* ---- route.py: the data model --------------------------------------------
SensorNames == {"start_1", "cp1_1", "end_1", "end_2"}

\* Sensor.address of each sensor (distinct, as in main.py)
SensorAddress ==
    [s \in SensorNames |->
        CASE s = "start_1" -> "C5:7D"
          [] s = "cp1_1"   -> "22:33"
          [] s = "end_1"   -> "D2:A3"
          [] s = "end_2"   -> "BB:CC"]

UnknownAddress == "unknown"
Addresses == {SensorAddress[s] : s \in SensorNames} \cup {UnknownAddress}

RoutePointSingleSensor(s) == [kind |-> "single", sensors |-> <<s>>]
RoutePointDualSensor(s1, s2) == [kind |-> "dual", sensors |-> <<s1, s2>>]

\* main.py ROUTE_SINGLE_SENSOR: single-sensor start and end, no checkpoints
ROUTE_SINGLE_SENSOR ==
    [name |-> "route_b",
     start |-> RoutePointSingleSensor("start_1"),
     end |-> RoutePointSingleSensor("end_1"),
     checkpoints |-> <<>>]

\* a route with a single-sensor checkpoint and a dual-sensor end
ROUTE_DUAL_END ==
    [name |-> "route_a",
     start |-> RoutePointSingleSensor("start_1"),
     end |-> RoutePointDualSensor("end_1", "end_2"),
     checkpoints |-> <<RoutePointSingleSensor("cp1_1")>>]

Routes == {ROUTE_SINGLE_SENSOR, ROUTE_DUAL_END}

Permutations3(S) == {p \in [1..Cardinality(S) -> S] : \A x \in S : \E i \in DOMAIN p : p[i] = x}

Max(S) == CHOOSE x \in S : \A y \in S : y <= x
Min(S) == CHOOSE x \in S : \A y \in S : x <= y
Abs(x) == IF x < 0 THEN -x ELSE x

\* dict helpers over a history
Keys(h) == {h[i].timestamp : i \in DOMAIN h}
Get(h, t) == LET i == CHOOSE j \in DOMAIN h : h[j].timestamp = t IN h[i].rssi

\* variant: the history is replaced by the new reading
add_rssi_Replace(h, rssi, t) == <<[timestamp |-> t, rssi |-> rssi]>>

\* variant: a timestamp that is already stored keeps its strength
add_rssi_KeepFirst(h, rssi, t) ==
    IF t \in Keys(h) THEN h ELSE Append(h, [timestamp |-> t, rssi |-> rssi])

\* Sensor.add_rssi: rssi_history[timestamp] = rssi
add_rssi(h, rssi, t) ==
    IF t \in Keys(h)
    THEN [i \in DOMAIN h |-> IF h[i].timestamp = t THEN [timestamp |-> t, rssi |-> rssi] ELSE h[i]]
    ELSE Append(h, [timestamp |-> t, rssi |-> rssi])

\* Sensor.has_readings
has_readings(h) == h # <<>>

SignalReading(t, s) == [timestamp |-> t, strength |-> s]

\* variant: the first reading stays the best one
SingleStrongest_First(h) ==
    IF ~has_readings(h) THEN <<>> ELSE <<SignalReading(h[1].timestamp, h[1].rssi)>>

\* RoutePointSingleSensor.get_strongest_signal: max() over the keys keeps the
\* first key, in dict order, whose value is maximal
SingleStrongest(h) ==
    IF ~has_readings(h) THEN <<>>
    ELSE LET m == Max({h[i].rssi : i \in DOMAIN h})
             i == Min({j \in DOMAIN h : h[j].rssi = m})
         IN <<SignalReading(h[i].timestamp, h[i].rssi)>>

\* the first element of the set S in the iteration order ord
FirstIn(S, ord) == ord[Min({i \in DOMAIN ord : ord[i] \in S})]

\* variant: only timestamps are kept when both sensors hold the same ones
common_times_SameKeys(h1, h2) == IF Keys(h1) = Keys(h2) THEN Keys(h1) ELSE {}

\* line 117: the timestamps at which both sensors have a reading
common_times(h1, h2) == Keys(h1) \cap Keys(h2)

\* variant: the strength of sensor1 alone
combined_signal_Sensor1(h1, h2, t) == Get(h1, t)

\* lines 124, 134 and 146: the combined strength at a common timestamp
combined_signal(h1, h2, t) == Get(h1, t) + Get(h2, t)

\* variant: the first of the tied timestamps, whatever their balance
most_balanced_First(times, h1, h2, ord) == FirstIn(times, ord)

\* lines 142-144: min() over the tied timestamps keeps the first one, in
\* iteration order, whose absolute difference is minimal
most_balanced(times, h1, h2, ord) ==
    LET Diff(t) == Abs(Get(h1, t) - Get(h2, t))
        d == Min({Diff(t) : t \in times})
    IN FirstIn({t \in times : Diff(t) = d}, ord)

\* RoutePointDualSensor.get_strongest_signal
DualStrongest(h1, h2, ord) ==
    LET common == common_times(h1, h2)
        Sum(t) == combined_signal(h1, h2, t)
    IN IF common = {} THEN <<>>
       ELSE LET max_combined_strength == Max({Sum(t) : t \in common})
                strongest_times == {t \in common : Sum(t) = max_combined_strength}
                strongest_time ==
                    IF Cardinality(strongest_times) = 1
                    THEN CHOOSE t \in strongest_times : TRUE
                    ELSE most_balanced(strongest_times, h1, h2, ord)
            IN <<SignalReading(strongest_time, Sum(strongest_time))>>

\* RoutePoint.get_strongest_signal, dispatched on the variant
get_strongest_signal(point, hist, ord) ==
    IF point.kind = "single"
    THEN SingleStrongest(hist[point.sensors[1]])
    ELSE DualStrongest(hist[point.sensors[1]], hist[point.sensors[2]], ord)

\* the Sensor dataclass value, as compared by the generated __eq__
SensorObj(s, hist) == [name |-> s, address |-> SensorAddress[s], rssi_history |-> hist[s]]

\* RoutePointSingleSensor.has_sensor / RoutePointDualSensor.has_sensor: the
\* same object, or a Sensor of equal fields; "None" is no Sensor and is equal
\* to none
has_sensor(point, s, hist) ==
    \E i \in DOMAIN point.sensors :
        \/ point.sensors[i] = s
        \/ s \in SensorNames /\ SensorObj(point.sensors[i], hist) = SensorObj(s, hist)

\* variant: a sensor of any point of the route counts as an end sensor
is_end_sensor_AnyPoint(r, s, hist) ==
    has_sensor(r.start, s, hist) \/ has_sensor(r.end, s, hist)

\* Route.is_end_sensor
is_end_sensor(r, s, hist) == has_sensor(r.end, s, hist)

\* Route.get_all_points
get_all_points(r) == <<r.start>> \o r.checkpoints \o <<r.end>>

\* variant: the start signal alone decides whether there is a time
get_total_time_StartOnly(r, hist, ord) ==
    LET start_signal == get_strongest_signal(r.start, hist, ord)
        end_signal == get_strongest_signal(r.end, hist, ord)
    IN IF start_signal = <<>> THEN <<>>
       ELSE LET end_time == IF end_signal = <<>> THEN start_signal[1].timestamp
                            ELSE end_signal[1].timestamp
            IN <<[start_time |-> start_signal[1].timestamp,
                  end_time |-> end_time,
                  duration_seconds |-> end_time - start_signal[1].timestamp]>>

\* variant: an end before the start is rejected
get_total_time_RejectNegative(r, hist, ord) ==
    LET start_signal == get_strongest_signal(r.start, hist, ord)
        end_signal == get_strongest_signal(r.end, hist, ord)
    IN IF start_signal = <<>> \/ end_signal = <<>> THEN <<>>
       ELSE IF end_signal[1].timestamp < start_signal[1].timestamp THEN <<>>
       ELSE <<[start_time |-> start_signal[1].timestamp,
               end_time |-> end_signal[1].timestamp,
               duration_seconds |-> end_signal[1].timestamp - start_signal[1].timestamp]>>

\* Route.get_total_time: None, or the RouteTime built from the two best signals
get_total_time(r, hist, ord) ==
    LET start_signal == get_strongest_signal(r.start, hist, ord)
        end_signal == get_strongest_signal(r.end, hist, ord)
    IN IF start_signal = <<>> \/ end_signal = <<>> THEN <<>>
       ELSE <<[start_time |-> start_signal[1].timestamp,
               end_time |-> end_signal[1].timestamp,
               duration_seconds |-> end_signal[1].timestamp - start_signal[1].timestamp]>>

RoutePassage(point, t, s) == [point |-> point, timestamp |-> t, signal_strength |-> s]

\* lines 199-203: one passage for every point that has a best signal, in the
\* order of get_all_points
RECURSIVE CollectPassages(_, _, _)
CollectPassages(points, hist, ord) ==
    IF points = <<>> THEN <<>>
    ELSE LET signal == get_strongest_signal(Head(points), hist, ord)
             rest == CollectPassages(Tail(points), hist, ord)
         IN IF signal = <<>> THEN rest
            ELSE <<RoutePassage(Head(points), signal[1].timestamp, signal[1].strength)>> \o rest

\* sorted(passages, key=lambda x: x.timestamp): a stable sort, passages with
\* equal timestamps keep their order
RECURSIVE SortedByTimestamp(_)
SortedByTimestamp(passages) ==
    IF passages = <<>> THEN <<>>
    ELSE LET n == Len(passages)
             front == SortedByTimestamp(SubSeq(passages, 1, n - 1))
             k == Cardinality({i \in DOMAIN front : front[i].timestamp <= passages[n].timestamp})
         IN SubSeq(front, 1, k) \o <<passages[n]>> \o SubSeq(front, k + 1, Len(front))

\* variant: the passages are returned in the declared order of the points
get_point_passages_Unsorted(r, hist, ord) ==
    CollectPassages(get_all_points(r), hist, ord)

\* Route.get_point_passages
get_point_passages(r, hist, ord) ==
    SortedByTimestamp(CollectPassages(get_all_points(r), hist, ord))

\* the sensors of the route in the order get_mac_to_sensor_lookup visits them
RECURSIVE WalkSensors(_)
WalkSensors(points) ==
    IF points = <<>> THEN <<>> ELSE Head(points).sensors \o WalkSensors(Tail(points))

\* Route.get_known_addresses
get_known_addresses(r) ==
    LET w == WalkSensors(get_all_points(r)) IN {SensorAddress[w[i]] : i \in DOMAIN w}

\* variant: an address that is not in the route falls back to the last sensor
get_mac_to_sensor_lookup_Default(r) ==
    LET w == WalkSensors(get_all_points(r))
    IN [a \in Addresses |->
            IF a \in get_known_addresses(r)
            THEN w[Max({i \in DOMAIN w : SensorAddress[w[i]] = a})]
            ELSE w[Len(w)]]

\* variant: every address of the route is mapped to the end point's first sensor
get_mac_to_sensor_lookup_EndSensor(r) ==
    [a \in get_known_addresses(r) |-> r.end.sensors[1]]

\* variant: only the first sensor of a point is entered
get_mac_to_sensor_lookup_FirstSensor(r) ==
    LET points == get_all_points(r)
        firsts == {points[i].sensors[1] : i \in DOMAIN points}
    IN [a \in {SensorAddress[s] : s \in firsts} |->
            CHOOSE s \in firsts : SensorAddress[s] = a]

\* Route.get_mac_to_sensor_lookup: a later sensor overwrites an earlier one
\* that has the same address
get_mac_to_sensor_lookup(r) ==
    LET w == WalkSensors(get_all_points(r))
    IN [a \in get_known_addresses(r) |->
            w[Max({i \in DOMAIN w : SensorAddress[w[i]] = a})]]


\* ---- state ----------------------------------------------------------------
VARIABLES
    route,              \* the Route given to scan_loop
    known_addresses,    \* BluetoothScanner._known_addresses
    hash_order,         \* iteration order of a set of timestamps
    rssi_history,       \* Sensor.rssi_history of every sensor
    device_queue,       \* BluetoothScanner._device_queue
    scanner_set,        \* BluetoothScanner._scanner is not None
    bleak,              \* the BleakScanner: "idle", "running" or "stopped"
    gen,                \* position of the scan_devices async generator
    pc,                 \* position of scan_loop
    outcome,            \* how scan_loop ends: "returned", "cancelled", "error"
    mainpc,             \* position of main around scan_loop
    last_end_signal,    \* scan_loop local
    end_timer,          \* scan_loop local: the completion timer task
    absolute_end_timer, \* scan_loop local: the absolute timer task
    timer_type,         \* scan_loop local, set when the loop breaks
    tasks,              \* every asyncio.sleep task created so far
    now,                \* event-loop clock
    produced,           \* detection callbacks so far
    cancels,            \* external cancellations so far
    stop_scan_calls,    \* invocations of BluetoothScanner.stop_scan
    bleak_stop_calls,   \* invocations of BleakScanner.stop
    sensor,             \* scan_loop local: "unset", "None" or the sensor looked up last
    cancelled_in,       \* where the last external cancellation hit the task
    last_end_at,        \* clock at the last end-sensor reading, -1 if none
    exit_at,            \* clock when the loop broke on a timer, -1 if not
    all_end_restarted,  \* every end reading so far restarted the completion timer
    ext_stop,           \* position of a caller of stop_scan outside scan_loop and main
    ext_stops           \* calls of stop_scan from outside so far

config == <<route, known_addresses, hash_order>>
locals == <<last_end_signal, end_timer, absolute_end_timer>>
observers == <<sensor, last_end_at, all_end_restarted, cancelled_in>>
callers == <<ext_stop, ext_stops>>
vars == <<route, known_addresses, hash_order, rssi_history, device_queue, scanner_set,
          bleak, gen, pc, outcome, mainpc, last_end_signal, end_timer, absolute_end_timer,
          timer_type, tasks, now, produced, cancels, stop_scan_calls, bleak_stop_calls,
          sensor, cancelled_in, last_end_at, exit_at, all_end_restarted, ext_stop,
          ext_stops>>

DeviceReading(a, t, r) == [address |-> a, timestamp |-> t, rssi |-> r]

\* asyncio.create_task(asyncio.sleep(d))
SleepTask(kind, d) == [kind |-> kind, deadline |-> now + d, state |-> "pending"]

\* Task.done(): finished or cancelled
TaskDone(ts, t) == t # 0 /\ ts[t].state # "pending"

\* Task.cancel(): no effect on a task that is done
TaskCancel(ts, t) ==
    IF t # 0 /\ ts[t].state = "pending" THEN [ts EXCEPT ![t].state = "cancelled"] ELSE ts

\* only a dual-sensor point builds a set of timestamps
HasDualPoint(r) ==
    \E i \in DOMAIN get_all_points(r) : get_all_points(r)[i].kind = "dual"

\* The Route and the scanner as constructed, scan_loop not yet called. The
\* scanner is given the route's addresses and one address that is not in the
\* route, so that the loop also meets a device it does not know.
Init ==
    /\ route \in Routes
    /\ known_addresses = get_known_addresses(route) \cup {UnknownAddress}
    /\ hash_order \in IF HasDualPoint(route) THEN Permutations3(Timestamps)
                       ELSE {CHOOSE p \in Permutations3(Timestamps) : TRUE}
    /\ rssi_history = [s \in SensorNames |-> <<>>]
    /\ device_queue = <<>>
    /\ scanner_set = FALSE
    /\ bleak = "idle"
    /\ gen = "created"
    /\ pc = "init"
    /\ outcome = "none"
    /\ mainpc = "scan_loop"
    /\ last_end_signal = <<>>
    /\ end_timer = 0
    /\ absolute_end_timer = 0
    /\ timer_type = "none"
    /\ tasks = <<>>
    /\ now = 0
    /\ produced = 0
    /\ cancels = 0
    /\ stop_scan_calls = 0
    /\ bleak_stop_calls = 0
    /\ sensor = "unset"
    /\ cancelled_in = "none"
    /\ last_end_at = -1
    /\ exit_at = -1
    /\ all_end_restarted = TRUE
    /\ ext_stop = "idle"
    /\ ext_stops = 0

\* variant: the finally block forgets the absolute timer
Finally_KeepsAbsolute(ts, outc, scanner_is_set) ==
    /\ tasks' = TaskCancel(ts, end_timer)
    /\ outcome' = outc
    /\ stop_scan_calls' = stop_scan_calls + 1
    /\ IF scanner_is_set
       THEN /\ bleak_stop_calls' = bleak_stop_calls + 1
            /\ pc' = "stopping"
       ELSE /\ bleak_stop_calls' = bleak_stop_calls
            /\ pc' = "done"

\* scan_loop's finally block, entered with the tasks ts and the outcome outc:
\* cancel both timers, then await scanner.stop_scan(), which suspends (in
\* BleakScanner.stop) only when _scanner is set
Finally(ts, outc, scanner_is_set) ==
    /\ tasks' = TaskCancel(TaskCancel(ts, end_timer), absolute_end_timer)
    /\ outcome' = outc
    /\ stop_scan_calls' = stop_scan_calls + 1
    /\ IF scanner_is_set
       THEN /\ bleak_stop_calls' = bleak_stop_calls + 1
            /\ pc' = "stopping"
       ELSE /\ bleak_stop_calls' = bleak_stop_calls
            /\ pc' = "done"

\* scan_loop is called: lines 19-23, then the first __anext__ of scan_devices
\* runs the generator up to await self._scanner.start()
ScanLoopStart ==
    /\ pc = "init"
    /\ pc' = "awaiting"
    /\ gen' = "starting"
    /\ scanner_set' = TRUE
    /\ UNCHANGED <<config, callers, rssi_history, device_queue, bleak, outcome, mainpc, locals,
                   timer_type, tasks, now, produced, cancels, stop_scan_calls,
                   bleak_stop_calls, observers, exit_at>>

\* BleakScanner.start() returns; the generator waits on the device queue
ScannerStarted ==
    /\ gen = "starting"
    /\ gen' = "waiting"
    /\ bleak' = "running"
    /\ UNCHANGED <<config, callers, rssi_history, device_queue, scanner_set, pc, outcome, mainpc,
                   locals, timer_type, tasks, now, produced, cancels, stop_scan_calls,
                   bleak_stop_calls, observers, exit_at>>

\* variant: the failure is swallowed and scan_loop returns the route
ScannerStartFails_Swallowed ==
    /\ gen = "starting"
    /\ gen' = "closed"
    /\ Finally(tasks, "returned", scanner_set)
    /\ UNCHANGED <<config, callers, rssi_history, device_queue, scanner_set, bleak, mainpc,
                   locals, timer_type, now, produced, cancels, observers, exit_at>>

\* BleakScanner.start() raises: the exception leaves the generator (outside
\* its try) and scan_loop, whose finally block runs
ScannerStartFails ==
    /\ gen = "starting"
    /\ gen' = "closed"
    /\ Finally(tasks, "error", scanner_set)
    /\ UNCHANGED <<config, callers, rssi_history, device_queue, scanner_set, bleak, mainpc, locals,
                   timer_type, now, produced, cancels, observers, exit_at>>

\* variant: every detected device is enqueued
DeviceFound_NoFilter(a, t, r) ==
    /\ bleak = "running"
    /\ produced < MaxReadings
    /\ Len(device_queue) < MaxQueue
    /\ produced' = produced + 1
    /\ device_queue' = Append(device_queue, DeviceReading(a, t, r))
    /\ UNCHANGED <<config, callers, rssi_history, scanner_set, bleak, gen, pc, outcome,
                   mainpc, locals, timer_type, tasks, now, cancels, stop_scan_calls,
                   bleak_stop_calls, observers, exit_at>>

\* variant: a new reading is put in front of the waiting ones
DeviceFound_Prepend(a, t, r) ==
    /\ bleak = "running"
    /\ produced < MaxReadings
    /\ Len(device_queue) < MaxQueue
    /\ produced' = produced + 1
    /\ device_queue' = IF a \notin known_addresses THEN device_queue
                       ELSE <<DeviceReading(a, t, r)>> \o device_queue
    /\ UNCHANGED <<config, callers, rssi_history, scanner_set, bleak, gen, pc, outcome,
                   mainpc, locals, timer_type, tasks, now, cancels, stop_scan_calls,
                   bleak_stop_calls, observers, exit_at>>

\* BluetoothScanner._device_found, called by the running BleakScanner
DeviceFound(a, t, r) ==
    /\ bleak = "running"
    /\ produced < MaxReadings
    /\ Len(device_queue) < MaxQueue
    /\ produced' = produced + 1
    /\ device_queue' = IF a \notin known_addresses THEN device_queue
                       ELSE Append(device_queue, DeviceReading(a, t, r))
    /\ UNCHANGED <<config, callers, rssi_history, scanner_set, bleak, gen, pc, outcome, mainpc,
                   locals, timer_type, tasks, now, cancels, stop_scan_calls,
                   bleak_stop_calls, observers, exit_at>>


\* line 28: either timer has completed
TimerExpired == TaskDone(tasks, end_timer) \/ TaskDone(tasks, absolute_end_timer)

\* variant: the timers are looked at only after the reading was recorded
IterateBreak_AfterReading ==
    /\ pc = "awaiting" /\ gen = "waiting" /\ device_queue # <<>>
    /\ TimerExpired
    /\ device_queue' = Tail(device_queue)
    /\ gen' = "yielded"
    /\ timer_type' = IF TaskDone(tasks, end_timer) THEN "completion" ELSE "absolute"
    /\ exit_at' = now
    /\ LET reading == Head(device_queue)
           mac_to_sensor_lookup == get_mac_to_sensor_lookup(route)
       IN rssi_history' =
            IF reading.address \in DOMAIN mac_to_sensor_lookup
            THEN [rssi_history EXCEPT ![mac_to_sensor_lookup[reading.address]] =
                        add_rssi(@, reading.rssi, reading.timestamp)]
            ELSE rssi_history
    /\ Finally(tasks, "returned", scanner_set)
    /\ UNCHANGED <<config, callers, scanner_set, bleak, mainpc, locals, now, produced,
                   cancels, observers>>

\* one iteration of the async for that finds a timer expired: the generator
\* yields the head of the queue and stays suspended at the yield, the loop
\* breaks, returns the route and runs its finally block
IterateBreak ==
    /\ pc = "awaiting" /\ gen = "waiting" /\ device_queue # <<>>
    /\ TimerExpired
    /\ device_queue' = Tail(device_queue)
    /\ gen' = "yielded"
    /\ timer_type' = IF TaskDone(tasks, end_timer) THEN "completion" ELSE "absolute"
    /\ exit_at' = now
    /\ Finally(tasks, "returned", scanner_set)
    /\ UNCHANGED <<config, callers, rssi_history, scanner_set, bleak, mainpc, locals, now, produced,
                   cancels, observers>>

\* variant: the absolute timer is started on every end signal
StartAbsolute_Always(end_signal) == end_signal # <<>>

\* variant: the absolute timer is not started by the first end signal
StartAbsolute_NotFirst(end_signal) ==
    end_signal # <<>> /\ absolute_end_timer = 0 /\ last_end_signal # <<>>

\* lines 44-46: the absolute timer is started on the first end signal
StartAbsolute(end_signal) == end_signal # <<>> /\ absolute_end_timer = 0

\* variant: an equally strong end signal counts as a new strongest one
NewStrongest_OrEqual(end_signal) ==
    /\ end_signal # <<>>
    /\ \/ last_end_signal = <<>>
       \/ end_signal[1].strength >= last_end_signal[1].strength

\* lines 44 and 50: a first or a strictly stronger end signal
NewStrongest(end_signal) ==
    /\ end_signal # <<>>
    /\ \/ last_end_signal = <<>>
       \/ end_signal[1].strength > last_end_signal[1].strength

\* variant: the new completion timer is created without cancelling the old one
RestartTimer_NoCancel(ts) ==
    Append(ts, SleepTask("completion", SCAN_END_TIMER_DURATION_SEC))

\* lines 54-56: cancel the running completion timer and create a new one
RestartTimer(ts) ==
    Append(TaskCancel(ts, end_timer), SleepTask("completion", SCAN_END_TIMER_DURATION_SEC))

\* lines 41-57 for a reading of an end sensor, with the history hist as
\* updated by add_rssi
EndReading(hist) ==
    LET end_signal == get_strongest_signal(route.end, hist, hash_order)
        tasks1 == IF StartAbsolute(end_signal)
                  THEN Append(tasks, SleepTask("absolute", ABSOLUTE_END_TIMER_DURATION_SEC))
                  ELSE tasks
        tasks2 == IF NewStrongest(end_signal) THEN RestartTimer(tasks1) ELSE tasks1
    IN /\ absolute_end_timer' = IF StartAbsolute(end_signal) THEN Len(tasks1)
                                ELSE absolute_end_timer
       /\ last_end_signal' = IF NewStrongest(end_signal) THEN end_signal ELSE last_end_signal
       /\ end_timer' = IF NewStrongest(end_signal) THEN Len(tasks2) ELSE end_timer
       /\ tasks' = tasks2
       /\ all_end_restarted' = (all_end_restarted /\ NewStrongest(end_signal))

\* one iteration of the async for with no timer expired (lines 34-60), up to
\* the next __anext__, which suspends the generator on the queue again
IterateReading ==
    /\ pc = "awaiting" /\ gen = "waiting" /\ device_queue # <<>>
    /\ ~TimerExpired
    /\ device_queue' = Tail(device_queue)
    /\ LET reading == Head(device_queue)
           mac_to_sensor_lookup == get_mac_to_sensor_lookup(route)
       IN IF reading.address \in DOMAIN mac_to_sensor_lookup
          THEN LET found == mac_to_sensor_lookup[reading.address]
                   hist == [rssi_history EXCEPT
                               ![found] = add_rssi(@, reading.rssi, reading.timestamp)]
               IN /\ sensor' = found
                  /\ rssi_history' = hist
                  /\ IF is_end_sensor(route, found, hist)
                     THEN /\ EndReading(hist)
                          /\ last_end_at' = now
                     ELSE UNCHANGED <<locals, tasks, all_end_restarted, last_end_at>>
          ELSE /\ sensor' = "None"
               /\ UNCHANGED <<rssi_history, locals, tasks, all_end_restarted, last_end_at>>
    /\ UNCHANGED <<config, callers, scanner_set, bleak, gen, pc, outcome, mainpc, timer_type, now,
                   produced, cancels, stop_scan_calls, bleak_stop_calls, exit_at,
                   cancelled_in>>

\* the event loop completes a sleep task whose delay has passed
TimerExpire(t) ==
    /\ t \in DOMAIN tasks
    /\ tasks[t].state = "pending"
    /\ now >= tasks[t].deadline
    /\ tasks' = [tasks EXCEPT ![t].state = "finished"]
    /\ UNCHANGED <<config, callers, rssi_history, device_queue, scanner_set, bleak, gen, pc, outcome,
                   mainpc, locals, timer_type, now, produced, cancels, stop_scan_calls,
                   bleak_stop_calls, observers, exit_at>>

\* time passes while every coroutine is suspended: no sleep task is due and
\* the loop has no reading to take (the 0.1 s wait_for timeout of
\* scan_devices only re-enters the wait). Only sleep tasks read the clock and
\* only the loop reads them, so the clock is advanced only while the loop
\* consumes readings and a sleep task exists.
Tick ==
    /\ pc = "awaiting" /\ gen = "waiting" /\ tasks # <<>>
    /\ now + TickSec <= MaxTime
    /\ \A t \in DOMAIN tasks : tasks[t].state = "pending" => now < tasks[t].deadline
    /\ ~(pc = "awaiting" /\ gen = "waiting" /\ device_queue # <<>>)
    /\ now' = now + TickSec
    /\ UNCHANGED <<config, callers, rssi_history, device_queue, scanner_set, bleak, gen, pc, outcome,
                   mainpc, locals, timer_type, tasks, produced, cancels, stop_scan_calls,
                   bleak_stop_calls, observers, exit_at>>

\* the task running main and scan_loop is cancelled while scan_loop is suspended
Cancel ==
    /\ cancels < MaxCancels
    /\ mainpc = "scan_loop"
    /\ pc \in {"awaiting", "stopping"}
    /\ cancels' = cancels + 1
    /\ cancelled_in' = CASE pc = "stopping" -> "loop_stop"
                         [] gen = "starting" -> "start"
                         [] gen = "waiting" -> "reading"
                         [] OTHER -> "gen_stop"
    /\ CASE pc = "awaiting" /\ gen = "starting" ->
            \* CancelledError leaves the generator and reaches line 63
            /\ gen' = "closed"
            /\ Finally(tasks, "cancelled", scanner_set)
         [] pc = "awaiting" /\ gen = "waiting" /\ scanner_set ->
            \* scanner.py line 73: the generator breaks and awaits stop_scan
            /\ gen' = "stopping"
            /\ stop_scan_calls' = stop_scan_calls + 1
            /\ bleak_stop_calls' = bleak_stop_calls + 1
            /\ UNCHANGED <<pc, outcome, tasks>>
         [] pc = "awaiting" /\ gen = "waiting" /\ ~scanner_set ->
            \* stop_scan has nothing to await: the stream ends, scan_loop returns
            /\ gen' = "closed"
            /\ tasks' = TaskCancel(TaskCancel(tasks, end_timer), absolute_end_timer)
            /\ outcome' = "returned"
            /\ stop_scan_calls' = stop_scan_calls + 2
            /\ pc' = "done"
            /\ UNCHANGED bleak_stop_calls
         [] pc = "awaiting" /\ gen = "stopping" ->
            \* CancelledError leaves the generator's finally and reaches line 63
            /\ gen' = "closed"
            /\ Finally(tasks, "cancelled", scanner_set)
         [] pc = "stopping" ->
            \* CancelledError leaves scan_loop's finally
            /\ pc' = "done"
            /\ outcome' = "cancelled"
            /\ UNCHANGED <<gen, tasks, stop_scan_calls, bleak_stop_calls>>
    /\ UNCHANGED <<config, callers, rssi_history, device_queue, scanner_set, bleak, mainpc,
                   locals, timer_type, now, produced, sensor, last_end_at,
                   all_end_restarted, exit_at>>

\* BleakScanner.stop() returns to the generator's finally: stop_scan sets
\* _scanner = None and the generator ends; a scan_loop waiting for the next
\* reading sees the stream end, returns the route and runs its finally block
GenStopReturns ==
    /\ gen = "stopping"
    /\ gen' = "closed"
    /\ scanner_set' = FALSE
    /\ bleak' = "stopped"
    /\ IF pc = "awaiting"
       THEN Finally(tasks, "returned", FALSE)
       ELSE UNCHANGED <<tasks, outcome, stop_scan_calls, bleak_stop_calls, pc>>
    /\ UNCHANGED <<config, callers, rssi_history, device_queue, mainpc, locals, timer_type, now,
                   produced, cancels, observers, exit_at>>

\* BleakScanner.stop() returns to scan_loop's finally: stop_scan sets
\* _scanner = None and scan_loop finishes
LoopStopReturns ==
    /\ pc = "stopping"
    /\ pc' = "done"
    /\ scanner_set' = FALSE
    /\ bleak' = "stopped"
    /\ UNCHANGED <<config, callers, rssi_history, device_queue, gen, outcome, mainpc, locals,
                   timer_type, tasks, now, produced, cancels, stop_scan_calls,
                   bleak_stop_calls, observers, exit_at>>

\* the generator abandoned at its yield by the break is finalized (aclose,
\* scheduled by the event loop's asyncgen hook): GeneratorExit runs its
\* finally, which awaits stop_scan
GenFinalize ==
    /\ gen = "yielded"
    /\ pc \in {"stopping", "done"}
    /\ stop_scan_calls' = stop_scan_calls + 1
    /\ IF scanner_set
       THEN /\ bleak_stop_calls' = bleak_stop_calls + 1
            /\ gen' = "stopping"
       ELSE /\ bleak_stop_calls' = bleak_stop_calls
            /\ gen' = "closed"
    /\ UNCHANGED <<config, callers, rssi_history, device_queue, scanner_set, bleak, pc, outcome,
                   mainpc, locals, timer_type, tasks, now, produced, cancels, observers,
                   exit_at>>

\* main.py lines 80-82: after scan_loop has ended, main's finally awaits stop_scan
MainCleanup ==
    /\ mainpc = "scan_loop"
    /\ pc = "done"
    /\ stop_scan_calls' = stop_scan_calls + 1
    /\ IF scanner_set
       THEN /\ bleak_stop_calls' = bleak_stop_calls + 1
            /\ mainpc' = "stopping"
       ELSE /\ bleak_stop_calls' = bleak_stop_calls
            /\ mainpc' = "exited"
    /\ UNCHANGED <<config, callers, rssi_history, device_queue, scanner_set, bleak, gen, pc, outcome,
                   locals, timer_type, tasks, now, produced, cancels, observers, exit_at>>

\* BleakScanner.stop() returns to main's finally
MainStopReturns ==
    /\ mainpc = "stopping"
    /\ mainpc' = "exited"
    /\ scanner_set' = FALSE
    /\ bleak' = "stopped"
    /\ UNCHANGED <<config, callers, rssi_history, device_queue, gen, pc, outcome, locals, timer_type,
                   tasks, now, produced, cancels, stop_scan_calls, bleak_stop_calls,
                   observers, exit_at>>

Next ==
    \/ ScanLoopStart
    \/ ScannerStarted
    \/ ScannerStartFails
    \/ \E a \in Addresses, t \in Timestamps, r \in RssiValues : DeviceFound(a, t, r)
    \/ IterateBreak
    \/ IterateReading
    \/ \E t \in 1..(MaxReadings + 1) : TimerExpire(t)
    \/ Tick
    \/ Cancel
    \/ GenStopReturns
    \/ LoopStopReturns
    \/ GenFinalize
    \/ MainCleanup
    \/ MainStopReturns

Spec == Init /\ [][Next]_vars

\* ---- the scanner stopped from outside --------------------------------------
\* variant: stop_scan stops the BleakScanner whether or not _scanner is set
StopScanCalled_AlwaysStops ==
    /\ ext_stop = "idle"
    /\ ext_stops < MaxStops
    /\ mainpc = "scan_loop"
    /\ gen # "starting"
    /\ ext_stops' = ext_stops + 1
    /\ stop_scan_calls' = stop_scan_calls + 1
    /\ bleak_stop_calls' = bleak_stop_calls + 1
    /\ ext_stop' = "stopping"
    /\ UNCHANGED <<config, rssi_history, device_queue, scanner_set, bleak, gen, pc, outcome,
                   mainpc, locals, timer_type, tasks, now, produced, cancels, observers,
                   exit_at>>

\* another task of the application calls scanner.stop_scan() while the scan
\* is set up or running ("Continues scanning until stop_scan() is called"):
\* with _scanner set the call suspends in BleakScanner.stop()
StopScanCalled ==
    /\ ext_stop = "idle"
    /\ ext_stops < MaxStops
    /\ mainpc = "scan_loop"
    /\ gen # "starting"
    /\ ext_stops' = ext_stops + 1
    /\ stop_scan_calls' = stop_scan_calls + 1
    /\ IF scanner_set
       THEN /\ bleak_stop_calls' = bleak_stop_calls + 1
            /\ ext_stop' = "stopping"
       ELSE /\ bleak_stop_calls' = bleak_stop_calls
            /\ ext_stop' = "idle"
    /\ UNCHANGED <<config, rssi_history, device_queue, scanner_set, bleak, gen, pc, outcome,
                   mainpc, locals, timer_type, tasks, now, produced, cancels, observers,
                   exit_at>>

\* BleakScanner.stop() returns to that caller: stop_scan sets _scanner = None
StopScanReturns ==
    /\ ext_stop = "stopping"
    /\ ext_stop' = "idle"
    /\ scanner_set' = FALSE
    /\ bleak' = "stopped"
    /\ UNCHANGED <<config, rssi_history, device_queue, gen, pc, outcome, mainpc, locals,
                   timer_type, tasks, now, produced, cancels, stop_scan_calls,
                   bleak_stop_calls, observers, exit_at, ext_stops>>

StopNext ==
    \/ Next
    \/ StopScanCalled
    \/ StopScanReturns

\* the program with a caller of stop_scan beside it
StopSpec == Init /\ [][StopNext]_vars

\* ---- the route data model used directly ----------------------------------
\* Signal strengths given to add_rssi when the Route is used without the scan
\* loop, as the tests of route.py do. Three levels let two timestamps of a
\* dual-sensor point reach the same sum with a different balance; the sensor
\* of a single-sensor point only has its levels compared, for which two do.
RouteRssiValues == {-70, -60, -50}

\* the sensors reachable from the route's points
RouteSensors(r) ==
    LET w == WalkSensors(get_all_points(r)) IN {w[i] : i \in DOMAIN w}

RouteStrengths(s) ==
    IF \E i \in DOMAIN get_all_points(route) :
            /\ get_all_points(route)[i].kind = "dual"
            /\ \E k \in DOMAIN get_all_points(route)[i].sensors :
                    get_all_points(route)[i].sensors[k] = s
    THEN RouteRssiValues
    ELSE RssiValues

\* sensor.add_rssi(rssi, timestamp) called on a sensor of the route
AddRssi(s, r, t) ==
    /\ pc = "init"
    /\ s \in RouteSensors(route)
    /\ r \in RouteStrengths(s)
    /\ rssi_history' = [rssi_history EXCEPT ![s] = add_rssi(@, r, t)]
    /\ UNCHANGED <<config, callers, device_queue, scanner_set, bleak, gen, pc, outcome, mainpc,
                   locals, timer_type, tasks, now, produced, cancels, stop_scan_calls,
                   bleak_stop_calls, observers, exit_at>>

RouteNext ==
    \E s \in SensorNames, r \in RouteRssiValues, t \in Timestamps : AddRssi(s, r, t)

\* any sequence of add_rssi calls on the sensors of a freshly built Route
RouteSpec == Init /\ [][RouteNext]_vars


\* ---- properties -----------------------------------------------------------

\* the sensors of the end point
EndSensors == {route.end.sensors[i] : i \in DOMAIN route.end.sensors}

\* the end point's best signal for the histories hist
EndBest(hist) == get_strongest_signal(route.end, hist, hash_order)

\* a step in which the loop takes the next reading from the stream
ReadingStep ==
    /\ pc = "awaiting" /\ gen = "waiting"
    /\ device_queue # <<>>
    /\ device_queue' = Tail(device_queue)

\* the sleep tasks of one kind that have neither finished nor been cancelled
Live(ts, kind) == {t \in DOMAIN ts : ts[t].kind = kind /\ ts[t].state = "pending"}

\* a step that appends no reading and leaves the loop state and the timers'
\* identity and deadlines alone
NoReadingEffect ==
    /\ rssi_history' = rssi_history
    /\ last_end_signal' = last_end_signal
    /\ end_timer' = end_timer
    /\ absolute_end_timer' = absolute_end_timer
    /\ Len(tasks') = Len(tasks)
    /\ \A t \in DOMAIN tasks : tasks'[t].deadline = tasks[t].deadline

\* C1: once the completion timer runs and no further reading is delivered
\* (the stream has not ended), the loop stops consuming at most
\* SCAN_END_TIMER_DURATION_SEC after the last end reading.
C1_TerminatesUnderSilence ==
    (pc = "awaiting" /\ gen = "waiting" /\ end_timer # 0 /\ sensor \in EndSensors)
        => now <= last_end_at + SCAN_END_TIMER_DURATION_SEC

\* C2: when every end reading was stronger than the one before, so that each
\* restarted the completion timer, and readings keep arriving, the loop stops
\* no later than ABSOLUTE_END_TIMER_DURATION_SEC after the first end signal.
C2_StopsWithinAbsoluteDuration ==
    (exit_at # -1 /\ all_end_restarted /\ Len(tasks) >= 3)
        => exit_at <= tasks[absolute_end_timer].deadline

\* C3: a cancellation that hits the task while scan_loop waits for the next
\* reading ends scan_loop with the cancellation, never with a normal return.
C3_CancellationPropagates ==
    (pc = "done" /\ cancelled_in = "reading") => outcome = "cancelled"

\* C4: whenever scan_loop has finished, on any exit path, no sleep task it
\* started is still running and stop_scan has been invoked.
C4_CleanupOnEveryExit ==
    pc = "done" =>
        /\ \A t \in DOMAIN tasks : tasks[t].state # "pending"
        /\ stop_scan_calls >= 1

C4_Witness == pc = "done" /\ cancelled_in = "reading" /\ Len(tasks) >= 2

\* C5: when scan_loop has finished, stop_scan has been invoked exactly once.
C5_StopInvokedExactlyOnce == pc = "done" => stop_scan_calls = 1

\* C6: processing an end-sensor reading updates last_end_signal, cancels the
\* running completion timer and starts a new one exactly when the end point's
\* recomputed best signal exists and last_end_signal was unset or is strictly
\* weaker; otherwise the completion timer and its deadline stay as they are.
C6_RestartIffStrictlyStronger ==
    [][(ReadingStep /\ pc' = "awaiting"
            /\ Head(device_queue).address \in {SensorAddress[e] : e \in EndSensors})
        => LET best == EndBest(rssi_history')
               stronger == /\ best # <<>>
                           /\ \/ last_end_signal = <<>>
                              \/ best[1].strength > last_end_signal[1].strength
           IN /\ (last_end_signal' # last_end_signal) <=> stronger
              /\ (end_timer' # end_timer) <=> stronger
              /\ stronger =>
                    /\ last_end_signal' = best
                    /\ end_timer' \in DOMAIN tasks' \ DOMAIN tasks
                    /\ tasks'[end_timer'] =
                          [kind |-> "completion",
                           deadline |-> now + SCAN_END_TIMER_DURATION_SEC,
                           state |-> "pending"]
                    /\ end_timer # 0 => tasks'[end_timer].state = "cancelled"
              /\ (~stronger /\ end_timer # 0) => tasks'[end_timer] = tasks[end_timer]
      ]_vars

C6_Witness ==
    /\ pc = "awaiting"
    /\ ~all_end_restarted
    /\ \E t \in DOMAIN tasks : tasks[t].kind = "completion" /\ tasks[t].state = "cancelled"

\* C7: the absolute timer is created at most once, by the reading after which
\* the end point first has a best signal, and no later step replaces it or
\* moves its deadline.
C7_AbsoluteTimerStartedOnce ==
    [][/\ absolute_end_timer # 0 =>
            /\ absolute_end_timer' = absolute_end_timer
            /\ tasks'[absolute_end_timer].deadline = tasks[absolute_end_timer].deadline
       /\ (absolute_end_timer = 0 /\ absolute_end_timer' # 0) =>
            /\ ReadingStep
            /\ EndBest(rssi_history) = <<>>
            /\ EndBest(rssi_history') # <<>>
            /\ tasks'[absolute_end_timer'].deadline = now + ABSOLUTE_END_TIMER_DURATION_SEC
       /\ (ReadingStep /\ pc' = "awaiting" /\ EndBest(rssi_history') # <<>>) =>
            absolute_end_timer' # 0
       /\ Cardinality({t \in DOMAIN tasks' : tasks'[t].kind = "absolute"}) <= 1
      ]_vars

C7_Witness ==
    /\ pc = "awaiting"
    /\ absolute_end_timer # 0
    /\ end_timer > absolute_end_timer + 1

\* C8: at most one completion timer is live and it is the one the loop holds;
\* a restart leaves the previous one cancelled; and the loop breaks only when
\* the timer it holds, or the absolute timer, has run to its end.
C8_OneLiveCompletionTimer ==
    [][/\ Cardinality(Live(tasks', "completion")) <= 1
       /\ \A t \in Live(tasks', "completion") : t = end_timer'
       /\ (end_timer # 0 /\ end_timer' # end_timer) => tasks'[end_timer].state = "cancelled"
       /\ (ReadingStep /\ pc' # "awaiting") =>
            \/ end_timer # 0 /\ tasks[end_timer].state = "finished"
            \/ absolute_end_timer # 0 /\ tasks[absolute_end_timer].state = "finished"
      ]_vars

C8_Witness ==
    /\ exit_at # -1
    /\ timer_type = "completion"
    /\ \E t \in DOMAIN tasks : tasks[t].kind = "completion" /\ tasks[t].state = "cancelled"

\* C9: a reading taken while a timer has expired makes the loop leave, and
\* from then on no step appends a reading, changes last_end_signal or creates
\* or re-arms a timer, and the loop never goes back to consuming.
C9_NothingProcessedAfterExpiry ==
    [][/\ (ReadingStep /\ \E t \in {end_timer, absolute_end_timer} :
                              t # 0 /\ tasks[t].state # "pending")
            => (pc' # "awaiting" /\ NoReadingEffect)
       /\ pc \in {"stopping", "done"}
            => (pc' \in {"stopping", "done"} /\ NoReadingEffect)
      ]_vars

C9_Witness == pc = "done" /\ exit_at # -1 /\ device_queue # <<>>

\* C10: taking a reading whose address is not an address of the route leaves
\* every history, last_end_signal and both timers as they are.
C10_UnknownAddressChangesNothing ==
    [][(ReadingStep /\ Head(device_queue).address \notin get_known_addresses(route))
        => NoReadingEffect]_vars

C10_Witness == pc = "awaiting" /\ sensor = "None" /\ Live(tasks, "completion") # {}
\* a step in which the stream of scan_devices ends without an exception while
\* scan_loop waits for the next reading
StreamEnds ==
    /\ pc = "awaiting"
    /\ gen' = "closed"
    /\ \/ gen = "stopping" /\ cancels' = cancels
       \/ gen = "waiting"

C20_NoReadingAfterStop ==
    [][(bleak = "stopped" /\ ~scanner_set) => ~ReadingStep]_vars

\* C21: a stop_scan call that finds _scanner unset (an earlier stop_scan has
\* completed, or no scan was started) does not call BleakScanner.stop(), does
\* not suspend, and leaves the scanner and the device queue as they are (the
\* queue loses its head only when the loop took it in the same step).
C21_StopIsIdempotent ==
    [][(stop_scan_calls' > stop_scan_calls /\ ~scanner_set)
        => /\ bleak_stop_calls' = bleak_stop_calls
           /\ scanner_set' = FALSE
           /\ bleak' = bleak
           /\ ~ReadingStep => device_queue' = device_queue
           /\ ext_stop' = ext_stop
           /\ pc' = "stopping" => pc = "stopping"
           /\ mainpc' = "stopping" => mainpc = "stopping"
           /\ gen' = "stopping" => gen = "stopping"
      ]_vars

C21_Witness ==
    /\ pc = "init"
    /\ ext_stops = 1 /\ ext_stop = "idle"
    /\ stop_scan_calls = 1 /\ bleak_stop_calls = 0

\* C22: a detection callback appends its reading to the device queue when the
\* device's address is in the known-address set and leaves the queue as it is
\* for any other address.
C22_EnqueuedIffKnownAddress ==
    [][\A a \in Addresses, t \in Timestamps, r \in RssiValues :
          DeviceFound(a, t, r) =>
              IF a \in known_addresses
              THEN device_queue' = Append(device_queue, DeviceReading(a, t, r))
              ELSE device_queue' = device_queue
      ]_vars

C22_Witness ==
    /\ pc = "awaiting" /\ gen = "waiting"
    /\ sensor = "unset"
    /\ produced = 2
    /\ Len(device_queue) = 1

\* C23: a detection callback adds its reading behind the waiting ones, the
\* loop takes the readings from the front one by one and stores the one it
\* takes, so that of two readings of one sensor with the same timestamp the
\* one enqueued later is the one stored.
C23_ReadingsKeepTheirOrder ==
    [][/\ produced' = produced + 1
          => \/ device_queue' = device_queue
             \/ /\ Len(device_queue') = Len(device_queue) + 1
                /\ SubSeq(device_queue', 1, Len(device_queue)) = device_queue
       /\ Len(device_queue') < Len(device_queue) => device_queue' = Tail(device_queue)
       /\ (ReadingStep /\ pc' = "awaiting"
            /\ Head(device_queue).address \in DOMAIN get_mac_to_sensor_lookup(route))
          => Get(rssi_history'[get_mac_to_sensor_lookup(route)[Head(device_queue).address]],
                 Head(device_queue).timestamp) = Head(device_queue).rssi
      ]_vars

C23_Witness ==
    /\ route = ROUTE_SINGLE_SENSOR
    /\ Len(tasks) = 3
    /\ Len(rssi_history["end_1"]) = 1
    /\ rssi_history["end_1"][1].rssi = -50

\* a step in which BleakScanner.start() raises
StartFailsStep == gen = "starting" /\ gen' = "closed" /\ cancels' = cancels

\* C24: when BleakScanner.start() fails, scan_loop ends with the failure after
\* invoking stop_scan; the scanner is not started again and no reading is
\* processed (only a cancellation during the cleanup replaces the failure).
C24_StartFailurePropagates ==
    [][/\ StartFailsStep
          => /\ outcome' = "error"
             /\ stop_scan_calls' = stop_scan_calls + 1
             /\ pc' \in {"stopping", "done"}
       /\ outcome = "error"
          => /\ outcome' \in {"error", "cancelled"}
             /\ cancels' = cancels => outcome' = "error"
             /\ gen' = "closed"
             /\ bleak' # "running"
             /\ pc' \in {"stopping", "done"}
             /\ produced' = 0
             /\ rssi_history' = [s \in SensorNames |-> <<>>]
      ]_vars

C24_Witness ==
    /\ pc = "done" /\ outcome = "error"
    /\ bleak = "stopped"
    /\ stop_scan_calls = 1

\* C26: the lookup maps the address of every sensor of every point to that
\* sensor, has no other key, and get_known_addresses is its set of keys.
C26_LookupCoversAllSensors ==
    LET lookup == get_mac_to_sensor_lookup(route)
        points == get_all_points(route)
        sensors == UNION {{points[i].sensors[k] : k \in DOMAIN points[i].sensors} :
                            i \in DOMAIN points}
    IN /\ \A s \in sensors :
            /\ SensorAddress[s] \in DOMAIN lookup
            /\ lookup[SensorAddress[s]] = s
       /\ DOMAIN lookup = {SensorAddress[s] : s \in sensors}
       /\ get_known_addresses(route) = DOMAIN lookup

C26_Witness ==
    /\ route = ROUTE_DUAL_END
    /\ pc = "awaiting"
    /\ sensor = "end_2"

\* C29: between two iterations of the loop, a last_end_signal that is set has
\* the strength of the end point's current best signal.
C29_LastEndSignalHasBestStrength ==
    (pc = "awaiting" /\ gen = "waiting" /\ last_end_signal # <<>>)
        => /\ EndBest(rssi_history) # <<>>
           /\ last_end_signal[1].strength = EndBest(rssi_history)[1].strength

\* C30: between two iterations of the loop, a last_end_signal that is set has
\* the timestamp of the end point's current best signal.
C30_LastEndSignalHasBestTimestamp ==
    (pc = "awaiting" /\ gen = "waiting" /\ last_end_signal # <<>>)
        => /\ EndBest(rssi_history) # <<>>
           /\ last_end_signal[1].timestamp = EndBest(rssi_history)[1].timestamp

\* ---- properties of the route data model (RouteSpec) ------------------------

\* the points of the route of one variant
PointsOfKind(kind) ==
    {pt \in {get_all_points(route)[i] : i \in DOMAIN get_all_points(route)} : pt.kind = kind}

\* the best signal of a point for the current histories
Best(pt) == get_strongest_signal(pt, rssi_history, hash_order)

\* for a dual-sensor point: the timestamps both sensors hold, the combined
\* strength and the imbalance at one of them, and the timestamps whose combined
\* strength is the greatest
BothAt(pt) == Keys(rssi_history[pt.sensors[1]]) \cap Keys(rssi_history[pt.sensors[2]])
CombinedAt(pt, t) == Get(rssi_history[pt.sensors[1]], t) + Get(rssi_history[pt.sensors[2]], t)
ImbalanceAt(pt, t) == Abs(Get(rssi_history[pt.sensors[1]], t) - Get(rssi_history[pt.sensors[2]], t))
TiedAt(pt) == {t \in BothAt(pt) : \A u \in BothAt(pt) : CombinedAt(pt, u) <= CombinedAt(pt, t)}

\* a history without the readings at timestamps outside T
Restrict(h, T) == SelectSeq(h, LAMBDA e : e.timestamp \in T)

\* C12: when several common timestamps of a dual-sensor point reach the
\* greatest combined strength, the best signal is at one of them and no other
\* of them is better balanced, in whatever order the readings were added.
C12_TieBrokenByBalance ==
    \A pt \in PointsOfKind("dual") :
        Cardinality(TiedAt(pt)) > 1 =>
            /\ Best(pt) # <<>>
            /\ Best(pt)[1].timestamp \in TiedAt(pt)
            /\ \A u \in TiedAt(pt) :
                    ImbalanceAt(pt, Best(pt)[1].timestamp) <= ImbalanceAt(pt, u)

C12_Witness ==
    \E pt \in PointsOfKind("dual") :
        /\ Cardinality(TiedAt(pt)) > 1
        /\ hash_order[1] \in TiedAt(pt)
        /\ ImbalanceAt(pt, hash_order[1]) > ImbalanceAt(pt, Best(pt)[1].timestamp)

\* C13: with a common timestamp, the best signal of a dual-sensor point is at
\* a common timestamp of greatest combined strength, its strength is that sum,
\* and readings held by one sensor only do not change it.
C13_MaxCombinedStrength ==
    \A pt \in PointsOfKind("dual") :
        BothAt(pt) # {} =>
            /\ Best(pt) # <<>>
            /\ Best(pt)[1].timestamp \in TiedAt(pt)
            /\ Best(pt)[1].strength = CombinedAt(pt, Best(pt)[1].timestamp)
            /\ Best(pt) = DualStrongest(Restrict(rssi_history[pt.sensors[1]], BothAt(pt)),
                                        Restrict(rssi_history[pt.sensors[2]], BothAt(pt)),
                                        hash_order)

C13_Witness ==
    \E pt \in PointsOfKind("dual") :
        /\ Cardinality(BothAt(pt)) = 1
        /\ \E t \in Keys(rssi_history[pt.sensors[1]]) \ BothAt(pt) :
                Get(rssi_history[pt.sensors[1]], t) > Get(rssi_history[pt.sensors[1]], Best(pt)[1].timestamp)
        /\ Get(rssi_history[pt.sensors[1]], Best(pt)[1].timestamp)
                # Get(rssi_history[pt.sensors[2]], Best(pt)[1].timestamp)

\* C14: the best signal of a dual-sensor point is None exactly when no
\* timestamp is a key of both sensors' histories.
C14_NoneIffNoCommonTimestamp ==
    \A pt \in PointsOfKind("dual") : (Best(pt) = <<>>) <=> (BothAt(pt) = {})

C14_Witness ==
    \E pt \in PointsOfKind("dual") :
        /\ Best(pt) = <<>>
        /\ rssi_history[pt.sensors[1]] # <<>>
        /\ rssi_history[pt.sensors[2]] # <<>>

\* C15: the best signal of a single-sensor point is None exactly when the
\* history is empty; otherwise it is an entry of the history that no entry
\* exceeds, so that a reading stronger than all the earlier ones is the best
\* one as soon as it is stored.
C15_SingleStrongestIsMaximum ==
    \A pt \in PointsOfKind("single") :
        LET h == rssi_history[pt.sensors[1]]
        IN /\ (Best(pt) = <<>>) <=> (h = <<>>)
           /\ h # <<>> =>
                /\ \E i \in DOMAIN h : Best(pt)[1] = SignalReading(h[i].timestamp, h[i].rssi)
                /\ \A i \in DOMAIN h : h[i].rssi <= Best(pt)[1].strength

C15_Witness ==
    \E pt \in PointsOfKind("single") :
        LET h == rssi_history[pt.sensors[1]]
        IN /\ Len(h) = 2
           /\ h[2].rssi > h[1].rssi
           /\ Best(pt) = <<SignalReading(h[2].timestamp, h[2].rssi)>>

\* C16: get_total_time is None exactly when the start point or the end point
\* has no best signal; otherwise it carries the two best-signal timestamps and
\* their difference.
C16_TotalTimeFromBestSignals ==
    LET total_time == get_total_time(route, rssi_history, hash_order)
    IN /\ (total_time = <<>>) <=> (Best(route.start) = <<>> \/ Best(route.end) = <<>>)
       /\ total_time # <<>> =>
            /\ total_time[1].start_time = Best(route.start)[1].timestamp
            /\ total_time[1].end_time = Best(route.end)[1].timestamp
            /\ total_time[1].duration_seconds =
                    Best(route.end)[1].timestamp - Best(route.start)[1].timestamp

C16_Witness ==
    /\ Best(route.start) # <<>>
    /\ Best(route.end) = <<>>
    /\ \E e \in EndSensors : rssi_history[e] # <<>>

\* C17: when the end point's best signal is earlier than the start point's,
\* get_total_time still gives a RouteTime, with the two timestamps in their
\* places and the negative difference as duration.
C17_NegativeDurationReturned ==
    (/\ Best(route.start) # <<>>
     /\ Best(route.end) # <<>>
     /\ Best(route.end)[1].timestamp < Best(route.start)[1].timestamp)
    => LET total_time == get_total_time(route, rssi_history, hash_order)
       IN /\ total_time # <<>>
          /\ total_time[1].duration_seconds < 0
          /\ total_time[1].duration_seconds + Best(route.start)[1].timestamp
                = Best(route.end)[1].timestamp
          /\ total_time[1].start_time > total_time[1].end_time

C17_Witness ==
    /\ get_total_time(route, rssi_history, hash_order) # <<>>
    /\ get_total_time(route, rssi_history, hash_order)[1].duration_seconds < 0

\* C18: get_point_passages has one entry for every point that has a best
\* signal and none for the others, each entry carries its point's best-signal
\* timestamp and strength, and the entries are in ascending order of timestamp.
C18_PassagesSortedByTimestamp ==
    LET passages == get_point_passages(route, rssi_history, hash_order)
        points == get_all_points(route)
    IN /\ \A i \in DOMAIN points :
            Cardinality({k \in DOMAIN passages : passages[k].point = points[i]})
                = IF Best(points[i]) = <<>> THEN 0 ELSE 1
       /\ \A k \in DOMAIN passages :
            /\ \E i \in DOMAIN points : passages[k].point = points[i]
            /\ passages[k].timestamp = Best(passages[k].point)[1].timestamp
            /\ passages[k].signal_strength = Best(passages[k].point)[1].strength
       /\ \A k, l \in DOMAIN passages :
            k < l => passages[k].timestamp <= passages[l].timestamp

C18_Witness ==
    LET passages == get_point_passages(route, rssi_history, hash_order)
    IN /\ Len(passages) = 3
       /\ passages[1].point = route.checkpoints[1]
       /\ passages[2].point = route.end
       /\ passages[3].point = route.start

\* C25: the add_rssi call of the loop sets the entry for the reading's
\* timestamp to its strength, adds that timestamp to the stored ones, leaves
\* every other entry and every other sensor as it was and keeps one strength
\* per timestamp; no step of a scan removes a stored timestamp.
C25_AddRssiSetsOneEntry ==
    [][/\ (ReadingStep /\ pc' = "awaiting"
            /\ Head(device_queue).address \in DOMAIN get_mac_to_sensor_lookup(route))
          => LET reading == Head(device_queue)
                 s == get_mac_to_sensor_lookup(route)[reading.address]
                 h == rssi_history[s]
                 h2 == rssi_history'[s]
             IN /\ Keys(h2) = Keys(h) \cup {reading.timestamp}
                /\ Get(h2, reading.timestamp) = reading.rssi
                /\ \A u \in Keys(h) \ {reading.timestamp} : Get(h2, u) = Get(h, u)
                /\ \A o \in SensorNames \ {s} : rssi_history'[o] = rssi_history[o]
       /\ \A o \in SensorNames :
            /\ Keys(rssi_history[o]) \subseteq Keys(rssi_history'[o])
            /\ Cardinality(Keys(rssi_history'[o])) = Len(rssi_history'[o])
      ]_vars

C25_Witness ==
    \E pt \in PointsOfKind("single") :
        LET h == rssi_history[pt.sensors[1]]
        IN /\ Len(h) = 2
           /\ h[1].timestamp = 2
           /\ h[1].rssi < h[2].rssi

\* the timestamp-to-strength mapping a history holds, without its order
AsMapping(h) == {<<h[i].timestamp, h[i].rssi>> : i \in DOMAIN h}

\* C27: two single-sensor points whose sensors hold the same
\* timestamp-to-strength mapping have their best signal at the same timestamp.
C27_SingleTieWinnerIndependentOfOrder ==
    \A p1, p2 \in PointsOfKind("single") :
        (/\ rssi_history[p1.sensors[1]] # <<>>
         /\ AsMapping(rssi_history[p1.sensors[1]]) = AsMapping(rssi_history[p2.sensors[1]]))
            => Best(p1)[1].timestamp = Best(p2)[1].timestamp

\* C28: is_end_sensor is true for the sensors of the end point and false for
\* every other sensor and for None, whatever the histories hold.
C28_EndSensorsOnly ==
    \A s \in SensorNames \cup {"None"} :
        is_end_sensor(route, s, rssi_history) <=> s \in EndSensors

C28_Witness ==
    /\ route = ROUTE_DUAL_END
    /\ rssi_history["start_1"] # <<>>
    /\ rssi_history["start_1"] = rssi_history["end_2"]
    /\ rssi_history["cp1_1"] = rssi_history["end_1"]

\* when the sleep task t was created
StartedAt(t) ==
    tasks[t].deadline - (IF tasks[t].kind = "absolute" THEN ABSOLUTE_END_TIMER_DURATION_SEC
                         ELSE SCAN_END_TIMER_DURATION_SEC)

\* C31: after every iteration of the loop, last_end_signal is set exactly when
\* the completion timer has been started and exactly when the absolute timer
\* has been started, and the absolute timer was not started later than the
\* completion timer the loop holds.
C31_LoopStateSetTogether ==
    /\ (last_end_signal # <<>>) <=> (end_timer # 0)
    /\ (end_timer # 0) <=> (absolute_end_timer # 0)
    /\ end_timer # 0 =>
            /\ tasks[end_timer].kind = "completion"
            /\ tasks[absolute_end_timer].kind = "absolute"
            /\ StartedAt(absolute_end_timer) <= StartedAt(end_timer)

C31_Witness ==
    /\ pc = "awaiting" /\ gen = "waiting"
    /\ last_end_signal # <<>>
    /\ StartedAt(absolute_end_timer) < StartedAt(end_timer)

\* the loop takes a reading of the sensor s, no timer having expired, and s
\* belongs to the start point or to a checkpoint
NonEndReading(s) ==
    /\ s \in RouteSensors(route) \ EndSensors
    /\ ReadingStep
    /\ ~TimerExpired
    /\ Head(device_queue).address = SensorAddress[s]

\* C32: an iteration that processes a reading of a start or checkpoint sensor
\* stores the reading in that sensor's history and changes nothing else:
\* last_end_signal, both timers and every other sensor's history, the end
\* sensors' included, stay as they were.
C32_NonEndReadingChangesOneHistory ==
    [][\A s \in SensorNames : NonEndReading(s) =>
            /\ rssi_history'[s] = add_rssi(rssi_history[s], Head(device_queue).rssi,
                                           Head(device_queue).timestamp)
            /\ \A o \in SensorNames \ {s} : rssi_history'[o] = rssi_history[o]
            /\ last_end_signal' = last_end_signal
            /\ end_timer' = end_timer
            /\ absolute_end_timer' = absolute_end_timer
            /\ tasks' = tasks
            /\ UNCHANGED <<pc, gen, outcome, timer_type, scanner_set, bleak>>
      ]_vars

C32_Witness ==
    /\ pc = "awaiting" /\ gen = "waiting"
    /\ sensor \in RouteSensors(route) \ EndSensors
    /\ rssi_history[sensor] # <<>>
    /\ last_end_signal # <<>>
    /\ Live(tasks, "completion") # {}
    /\ Live(tasks, "absolute") # {}

\* invocations of BleakScanner.start: scan_devices calls it once, when the
\* loop first asks the generator for a reading
bleak_start_calls == IF gen = "created" THEN 0 ELSE 1

\* the stop_scan calls that are suspended in BleakScanner.stop
SuspendedStops ==
    (IF pc = "stopping" THEN {"scan_loop"} ELSE {})
        \cup (IF gen = "stopping" THEN {"scan_devices"} ELSE {})
        \cup (IF mainpc = "stopping" THEN {"main"} ELSE {})

\* C33: when two stop_scan calls overlap, one suspended in the scanner's stop
\* as the other begins, the scanner's stop has still been invoked at most
\* once for each start.
C33_OverlappingStopsStopOnce ==
    Cardinality(SuspendedStops) >= 2 => bleak_stop_calls <= bleak_start_calls

\* C34: when scan_loop has returned the route because a timer expired,
\* get_total_time of that route is not None.
C34_TimerReturnHasTotalTime ==
    (pc = "done" /\ outcome = "returned" /\ exit_at # -1) =>
        get_total_time(route, rssi_history, hash_order) # <<>>

====
